---- MODULE Spec2Model ----
(***************************************************************************)
(* A model of the webhook ingestion service: signature verification,      *)
(* payload validation, idempotent insert keyed by message_id, the         *)
(* filtered / paginated listing, the statistics rollup and the health     *)
(* probes.                                                                *)
(*                                                                        *)
(* Strings are tuples of one-character strings.  An Optional[T] value is  *)
(* a tuple of length 0 (None) or 1 (the value).                           *)
(***************************************************************************)
EXTENDS Integers, Sequences, FiniteSets, TLC

VARIABLES
    secret,     \* settings.WEBHOOK_SECRET
    store,      \* table "messages": committed rows, in insertion order
    clock,      \* the database's now(), read by the created_at default
    req,        \* webhook requests: position in the handler, input, response
    counter,    \* WEBHOOK_REQUESTS_TOTAL, by result label
    rd          \* the read request in flight (list, stats, health) and its response

vars == <<secret, store, clock, req, counter, rd>>

----------------------------------------------------------------------------
(* Bounds of the model.                                                    *)

NumReqs == 2

Reqs == 1..NumReqs

----------------------------------------------------------------------------
(* Optional values and characters.                                         *)

None == <<>>

Some(x) == <<x>>

Max(a, b) == IF a >= b THEN a ELSE b

Min(a, b) == IF a <= b THEN a ELSE b

\* The characters the model uses, in code point order.  "U+00E9" stands for
\* the one character outside ASCII (latin-1 e-acute).
Alphabet ==
    << "\n", " ", "%", "+",
       "0", "1", "2", "3", "4", "5", "6", "7", "8", "9",
       "A", "B", "C", "D", "E", "F", "G", "H", "I", "J", "K", "L", "M",
       "N", "O", "P", "Q", "R", "S", "T", "U", "V", "W", "X", "Y", "Z",
       "_",
       "a", "b", "c", "d", "e", "f", "g", "h", "i", "j", "k", "l", "m",
       "n", "o", "p", "q", "r", "s", "t", "u", "v", "w", "x", "y", "z",
       "U+00E9" >>

CodeTable ==
    [c \in {Alphabet[i] : i \in 1..Len(Alphabet)} |->
        CHOOSE i \in 1..Len(Alphabet) : Alphabet[i] = c]

\* The position of a character in code point order.
Code(c) == CodeTable[c]

IsDigit(c) == Code(c) >= Code("0") /\ Code(c) <= Code("9")

IsUpper(c) == Code(c) >= Code("A") /\ Code(c) <= Code("Z")

IsAsciiChar(c) == c # "U+00E9"

\* lower() / upper() of one character: ASCII letters only.
LowerChar(c) == IF IsUpper(c) THEN Alphabet[Code(c) - Code("A") + Code("a")] ELSE c

UpperChar(c) ==
    IF Code(c) >= Code("a") /\ Code(c) <= Code("z")
    THEN Alphabet[Code(c) - Code("a") + Code("A")]
    ELSE c

RECURSIVE LowerStr(_)
LowerStr(s) == IF s = <<>> THEN <<>> ELSE <<LowerChar(Head(s))>> \o LowerStr(Tail(s))

RECURSIVE UpperStr(_)
UpperStr(s) == IF s = <<>> THEN <<>> ELSE <<UpperChar(Head(s))>> \o UpperStr(Tail(s))

\* Byte-wise string order (the BINARY collation of a TEXT column).
RECURSIVE StrLess(_, _)
StrLess(a, b) ==
    IF b = <<>> THEN FALSE
    ELSE IF a = <<>> THEN TRUE
    ELSE IF Code(Head(a)) # Code(Head(b)) THEN Code(Head(a)) < Code(Head(b))
    ELSE StrLess(Tail(a), Tail(b))

----------------------------------------------------------------------------
(* WebhookPayload validation (app/models.py).                              *)

MaxTextLen == 4096

\* The pattern without its "$": only the start of the string is looked at.
MatchE164Prefix(v) == Len(v) >= 2 /\ v[1] = "+" /\ IsDigit(v[2])

\* re.match(r'^\+\d+$', v): a "+", one or more digits, and "$" also matches
\* just before one trailing newline.
MatchE164(v) ==
    LET n == Len(v)
        m == IF n >= 1 /\ v[n] = "\n" THEN n - 1 ELSE n
    IN  /\ m >= 2
        /\ v[1] = "+"
        /\ \A i \in 2..m : IsDigit(v[i])

\* The validation pydantic runs when FastAPI builds the `payload` argument.
ValidPayload(p) ==
    /\ Len(p.message_id) >= 1
    /\ MatchE164(p.from_msisdn)
    /\ MatchE164(p.to_msisdn)
    /\ (p.text # None => Len(p.text[1]) <= MaxTextLen)

----------------------------------------------------------------------------
(* Request bodies.  `raw` stands for the exact byte string received: two  *)
(* bodies may carry the same payload in different bytes.                   *)

MsgText == <<"M", "s", "g">>

LongText == [i \in 1..(MaxTextLen + 1) |-> "x"]

Payload(id, from, to, ts, text) ==
    [message_id |-> id, from_msisdn |-> from, to_msisdn |-> to, ts |-> ts, text |-> text]

Bodies ==
    << [raw |-> 1, payload |-> Payload(<<"m", "1">>, <<"+", "1", "0", "0">>, <<"+", "9">>, 2, Some(MsgText))],
       [raw |-> 2, payload |-> Payload(<<"m", "1">>, <<"+", "1", "0", "0">>, <<"+", "9">>, 2, Some(MsgText))],
       [raw |-> 3, payload |-> Payload(<<"m", "1">>, <<"+", "2", "0", "0">>, <<"+", "9">>, 1, Some(<<"o", "t", "h", "e", "r">>))],
       [raw |-> 4, payload |-> Payload(<<"m", "2">>, <<"+", "2", "0", "0">>, <<"+", "9">>, 2, None)],
       [raw |-> 5, payload |-> Payload(<<>>, <<"+", "1", "0", "0">>, <<"+", "9">>, 1, Some(MsgText))],
       [raw |-> 6, payload |-> Payload(<<"m", "2">>, <<"1", "0", "0">>, <<"+", "9">>, 1, Some(MsgText))],
       [raw |-> 7, payload |-> Payload(<<"m", "2">>, <<"+", "1", "0", "0">>, <<"+", "9", "a">>, 1, None)],
       [raw |-> 8, payload |-> Payload(<<"m", "2">>, <<"+", "1", "0", "0">>, <<"+", "9">>, 1, Some(LongText))],
       [raw |-> 9, payload |-> Payload(<<"m", "3">>, <<"+", "1", "0", "0">>, <<"+", "9">>, 3, Some(<<"M", "S", "G", " ", "b">>))],
       [raw |-> 10, payload |-> Payload(<<"m", "4">>, <<"+", "1", "0", "0">>, <<"+", "9">>, 1, Some(<<"E", "a", "r", "l", "y">>))],
       [raw |-> 11, payload |-> Payload(<<"m", "2">>, <<"+", "1", "0", "0">>, <<"+", "9">>, 3, Some(MsgText))] >>

\* The bodies a webhook request of the ingestion specifications may carry.
IngestBodies == 1..8

\* The bodies whose rows an earlier run may have left in the database file.
SeedBodies == {4, 9, 10}

\* The bodies delivered while read requests run.
LiveBodies == {1, 3, 11}

----------------------------------------------------------------------------
(* Signature verification (app/main.py, verify_signature).                 *)

\* The secret the sender signs with.
SharedSecret == <<"t", "e", "s", "t", "s", "e", "c", "r", "e", "t">>

Secrets == {<<>>, SharedSecret}

HexDigits == <<"0", "1", "2", "3", "4", "5", "6", "7", "8", "9", "a", "b", "c", "d", "e", "f">>

RECURSIVE KeySum(_)
KeySum(key) == IF key = <<>> THEN 0 ELSE Code(Head(key)) + KeySum(Tail(key))

\* hmac.new(key, msg, sha256).hexdigest(): a keyed digest of the exact bytes,
\* rendered in lowercase hexadecimal (one byte of digest in the model).
HexDigest(key, raw) ==
    LET n == (KeySum(key) * 7 + raw * 13 + 3) % 256
    IN  <<HexDigits[(n \div 16) + 1], HexDigits[(n % 16) + 1]>>

IsAscii(s) == \A i \in 1..Len(s) : IsAsciiChar(s[i])

\* hmac.compare_digest on two str: TypeError when either holds a character
\* outside ASCII, else equality.
CompareDigest(a, b) ==
    IF ~(IsAscii(a) /\ IsAscii(b)) THEN "TypeError"
    ELSE IF a = b THEN "equal" ELSE "differ"

\* verify_signature with the header looked at before the secret.
VerifySignatureHeaderFirst(key, raw, x_signature) ==
    IF x_signature = None \/ x_signature[1] = <<>> THEN "missing"
    ELSE IF key = <<>> THEN "not_configured"
    ELSE LET cmp == CompareDigest(HexDigest(key, raw), x_signature[1])
         IN  IF cmp = "TypeError" THEN "raise"
             ELSE IF cmp = "differ" THEN "mismatch"
             ELSE "pass"

\* What verify_signature does for one request: "pass", or how it leaves.
VerifySignature(key, raw, x_signature) ==
    IF key = <<>> THEN "not_configured"
    ELSE IF x_signature = None \/ x_signature[1] = <<>> THEN "missing"
    ELSE LET cmp == CompareDigest(HexDigest(key, raw), x_signature[1])
         IN  IF cmp = "TypeError" THEN "raise"
             ELSE IF cmp = "differ" THEN "mismatch"
             ELSE "pass"

\* The X-Signature headers a request with body b may carry: none, empty, the
\* sender's digest, that digest in uppercase, the digest of other bytes, and
\* a header with a character outside ASCII.
Signatures(b) ==
    { None,
      Some(<<>>),
      Some(HexDigest(SharedSecret, Bodies[b].raw)),
      Some(UpperStr(HexDigest(SharedSecret, Bodies[b].raw))),
      Some(HexDigest(SharedSecret, Bodies[b].raw + 1)),
      Some(<<"U+00E9">>) }

----------------------------------------------------------------------------
(* The webhook request (app/main.py: log_and_metrics_middleware,           *)
(* verify_signature, webhook; app/storage.py: insert_message).             *)

Labels == {"created", "duplicate", "invalid_signature", "invalid_payload", "internal_error"}

\* WEBHOOK_REQUESTS_TOTAL.labels(result=label).inc()
Inc(c, label) == [c EXCEPT ![label] = @ + 1]

\* The keys of the middleware's log_context when it logs.
LogContextAtError == {"request_id", "method", "path"}

LogContextAtEnd == {"request_id", "method", "path", "latency_ms", "status"}

LogRecord(level, msg, extra) == [level |-> level, msg |-> msg, extra |-> extra]

\* The record the middleware's finally block writes for every request.
ProcessedRecord == LogRecord("INFO", "Request processed", LogContextAtEnd)

\* The record the middleware writes when call_next raises.
UnhandledRecord == LogRecord("ERROR", "Unhandled exception", LogContextAtError)

Response(status, body) == [status |-> status, body |-> body]

NoResponse == Response(0, "")

OkResponse == Response(200, "status:ok")

InvalidSignatureResponse == Response(401, "detail:invalid signature")

NotConfiguredResponse == Response(503, "detail:Service not configured")

ValidationErrorResponse == Response(422, "detail:validation errors")

\* What the server answers when an exception leaves the application.
ServerErrorResponse == Response(500, "Internal Server Error")

IdleReq ==
    [pc |-> "idle", body |-> 0, sig |-> None, row |-> None,
     resp |-> NoResponse, result |-> "none", log_extra |-> None, log |-> <<>>]

\* Message(message_id=..., from_msisdn=..., to_msisdn=..., ts=..., text=...);
\* created_at is the server default, now() at the INSERT.
Message(p, now) ==
    [message_id |-> p.message_id, from_msisdn |-> p.from_msisdn,
     to_msisdn |-> p.to_msisdn, ts |-> p.ts, text |-> p.text, created_at |-> now]

\* A table without the primary key: no INSERT ever conflicts.
StoredIdsNoKey(rows) == {}

\* The unique key on a column in which all rows agree: once a row is
\* stored, every INSERT conflicts.
StoredIdsSharedKey(rows) ==
    IF Len(rows) = 0 THEN {}
    ELSE {Bodies[b].payload.message_id : b \in 1..Len(Bodies)}

StoredIds(rows) == {rows[i].message_id : i \in 1..Len(rows)}

\* The key is checked against committed rows only, and never again.
KeyLockedNever(r, id) == FALSE

\* Another session holds an uncommitted row with this key: the INSERT waits.
KeyLocked(r, id) ==
    \E o \in Reqs \ {r} : req[o].pc = "committing" /\ req[o].row[1].message_id = id

\* Requests are numbered in the order they arrive.
NextReq(r) ==
    /\ req[r].pc = "idle"
    /\ \A o \in Reqs : o < r => req[o].pc # "idle"

NoneInFlight == \A o \in Reqs : req[o].pc \in {"idle", "done"}

\* The request arrives: the middleware starts, verify_signature runs, the
\* payload is validated, and the handler reaches insert_message's commit.
WebhookReceive(r, b, sig) ==
    /\ NextReq(r)
    /\ LET v == VerifySignature(secret, Bodies[b].raw, sig)
           arrived == [IdleReq EXCEPT !.body = b, !.sig = sig]
       IN  CASE v = "not_configured" ->
                  /\ req' = [req EXCEPT ![r] = [arrived EXCEPT
                        !.pc = "done", !.resp = NotConfiguredResponse,
                        !.log = << LogRecord("ERROR", "WEBHOOK_SECRET not set", {}),
                                   ProcessedRecord >>]]
                  /\ UNCHANGED counter
            [] v = "missing" ->
                  /\ req' = [req EXCEPT ![r] = [arrived EXCEPT
                        !.pc = "done", !.resp = InvalidSignatureResponse,
                        !.log = << LogRecord("ERROR", "Missing X-Signature header", {}),
                                   ProcessedRecord >>]]
                  /\ counter' = Inc(counter, "invalid_signature")
            [] v = "raise" ->
                  /\ req' = [req EXCEPT ![r] = [arrived EXCEPT
                        !.pc = "done", !.resp = ServerErrorResponse,
                        !.log = << UnhandledRecord, ProcessedRecord >>]]
                  /\ UNCHANGED counter
            [] v = "mismatch" ->
                  /\ req' = [req EXCEPT ![r] = [arrived EXCEPT
                        !.pc = "done", !.resp = InvalidSignatureResponse,
                        !.log = << LogRecord("ERROR", "Invalid X-Signature", {}),
                                   ProcessedRecord >>]]
                  /\ counter' = Inc(counter, "invalid_signature")
            [] v = "pass" /\ ~ValidPayload(Bodies[b].payload) ->
                  /\ req' = [req EXCEPT ![r] = [arrived EXCEPT
                        !.pc = "done", !.resp = ValidationErrorResponse,
                        !.log = << ProcessedRecord >>]]
                  /\ UNCHANGED counter
            [] v = "pass" /\ ValidPayload(Bodies[b].payload) ->
                  /\ req' = [req EXCEPT ![r] = [arrived EXCEPT !.pc = "writing"]]
                  /\ UNCHANGED counter
    /\ UNCHANGED <<secret, store, clock, rd>>

\* The rest of the handler once insert_message has returned `inserted`.
Finish(q, inserted) ==
    [q EXCEPT
        !.pc = "done",
        !.row = None,
        !.resp = OkResponse,
        !.result = IF inserted THEN "created" ELSE "duplicate",
        !.log_extra = Some([message_id |-> Bodies[q.body].payload.message_id,
                            dup |-> ~inserted,
                            result |-> IF inserted THEN "created" ELSE "duplicate"]),
        !.log = << ProcessedRecord >>]

\* insert_message with `except Exception:` in place of `except
\* IntegrityError:`: every failure is rolled back and reported as False.
CrashReportedAsDuplicate(q) == Finish(q, FALSE)

\* An exception other than IntegrityError leaves insert_message and the
\* handler; the middleware logs it and raises it again.
Crash(q) ==
    [q EXCEPT
        !.pc = "done",
        !.row = None,
        !.resp = ServerErrorResponse,
        !.log = << UnhandledRecord, ProcessedRecord >>]

\* insert_message written with session.merge: a delivery of a stored
\* message_id overwrites the row and is reported as a duplicate.
WebhookInsertMerge(r) ==
    /\ req[r].pc = "writing"
    /\ LET p == Bodies[req[r].body].payload
       IN  IF p.message_id \in StoredIds(store)
           THEN /\ store' = [i \in 1..Len(store) |->
                                IF store[i].message_id = p.message_id
                                THEN Message(p, store[i].created_at)
                                ELSE store[i]]
                /\ req' = [req EXCEPT ![r] = Finish(req[r], FALSE)]
                /\ counter' = Inc(counter, "duplicate")
                /\ UNCHANGED clock
           ELSE /\ ~KeyLocked(r, p.message_id)
                /\ req' = [req EXCEPT ![r] = [req[r] EXCEPT
                      !.pc = "committing", !.row = Some(Message(p, clock))]]
                /\ clock' = clock + 1
                /\ UNCHANGED <<counter, store>>
    /\ UNCHANGED <<secret, rd>>

\* session.commit(), first half: the flush sends the INSERT.  The primary key
\* decides: a committed row with this message_id raises IntegrityError, which
\* insert_message answers with rollback and False.
WebhookInsert(r) ==
    /\ req[r].pc = "writing"
    /\ LET p == Bodies[req[r].body].payload
       IN  \E fault \in BOOLEAN :
             IF fault
             THEN /\ req' = [req EXCEPT ![r] = Crash(req[r])]
                  /\ UNCHANGED <<counter, clock>>
             ELSE IF p.message_id \in StoredIds(store)
             THEN /\ req' = [req EXCEPT ![r] = Finish(req[r], FALSE)]
                  /\ counter' = Inc(counter, "duplicate")
                  /\ UNCHANGED clock
             ELSE /\ ~KeyLocked(r, p.message_id)
                  /\ req' = [req EXCEPT ![r] = [req[r] EXCEPT
                        !.pc = "committing", !.row = Some(Message(p, clock))]]
                  /\ clock' = clock + 1
                  /\ UNCHANGED counter
    /\ UNCHANGED <<secret, store, rd>>

\* session.commit(), second half: COMMIT makes the row visible, and the
\* handler reports `created`.
WebhookCommit(r) ==
    /\ req[r].pc = "committing"
    /\ \E fault \in BOOLEAN :
         IF fault
         THEN /\ req' = [req EXCEPT ![r] = Crash(req[r])]
              /\ UNCHANGED <<counter, store>>
         ELSE /\ store' = Append(store, req[r].row[1])
              /\ req' = [req EXCEPT ![r] = Finish(req[r], TRUE)]
              /\ counter' = Inc(counter, "created")
    /\ UNCHANGED <<secret, clock, rd>>

\* The caller has gone and the task was cancelled at an await: CancelledError
\* is no Exception, so only the middleware's `finally` runs, and no response
\* is delivered.
Cancelled(q) ==
    [q EXCEPT
        !.pc = "cancelled",
        !.row = None,
        !.log = << ProcessedRecord >>]

\* Cancellation that sends the pending row to the table all the same, past
\* the key.
WebhookCancelWritesAnyway(r) ==
    /\ req[r].pc \in {"writing", "committing"}
    /\ store' = Append(store, Message(Bodies[req[r].body].payload, clock))
    /\ req' = [req EXCEPT ![r] = Cancelled(req[r])]
    /\ UNCHANGED <<secret, clock, counter, rd>>

\* The task is cancelled inside `await session.commit()`.  Before the INSERT
\* was sent nothing is written.  After it, the COMMIT either was not issued,
\* and closing the session (get_db) rolls the row back, or had been issued
\* and completes in the database although nobody awaits it any more.  The
\* handler never resumes: nothing is counted.
WebhookCancel(r) ==
    /\ req[r].pc \in {"writing", "committing"}
    /\ \E landed \in BOOLEAN :
         IF landed /\ req[r].pc = "committing"
         THEN store' = Append(store, req[r].row[1])
         ELSE store' = store
    /\ req' = [req EXCEPT ![r] = Cancelled(req[r])]
    /\ UNCHANGED <<secret, clock, counter, rd>>

----------------------------------------------------------------------------
(* Health probes (app/main.py: health_live, health_ready).                 *)

IdleReader == [kind |-> "none", pc |-> "idle"]

\* One read request is followed from its arrival to its response.
ReaderFree == rd.pc = "idle"

HealthLive ==
    /\ ReaderFree
    /\ rd' = [kind |-> "live", pc |-> "done", resp |-> Response(200, "status:ok")]
    /\ UNCHANGED <<secret, store, clock, req, counter>>

\* Readiness that probes the database only.
HealthReadyProbeOnly ==
    /\ ReaderFree
    /\ \E db_up \in BOOLEAN :
         rd' = [kind |-> "ready", pc |-> "done", db_up |-> db_up,
                resp |-> IF ~db_up THEN Response(503, "detail:Database not ready")
                         ELSE Response(200, "status:ready")]
    /\ UNCHANGED <<secret, store, clock, req, counter>>

\* SELECT 1 answers or raises; then the secret is checked.
HealthReady ==
    /\ ReaderFree
    /\ \E db_up \in BOOLEAN :
         rd' = [kind |-> "ready", pc |-> "done", db_up |-> db_up,
                resp |-> IF ~db_up THEN Response(503, "detail:Database not ready")
                         ELSE IF secret = <<>> THEN Response(503, "detail:Configuration invalid")
                         ELSE Response(200, "status:ready")]
    /\ UNCHANGED <<secret, store, clock, req, counter>>

----------------------------------------------------------------------------
(* GET /messages (app/main.py, get_messages).                              *)

MinLimit == 1

MaxLimit == 100

DefaultLimit == 50

\* The clamp without its upper end.
ClampLimitNoCeiling(limit) == Max(MinLimit, limit)

\* limit = max(1, min(100, limit))
ClampLimit(limit) == Max(MinLimit, Min(MaxLimit, limit))

\* offset = max(0, offset)
ClampOffset(offset) == Max(0, offset)

\* `if from_:`, `if q:`: None and the empty string add no filter.
Truthy(o) == o # None /\ o[1] # <<>>

\* LIKE: "%" stands for any run of characters, "_" for any one character.
RECURSIVE Like(_, _)
Like(s, pattern) ==
    IF pattern = <<>> THEN s = <<>>
    ELSE IF Head(pattern) = "%"
         THEN Like(s, Tail(pattern)) \/ (s # <<>> /\ Like(Tail(s), pattern))
    ELSE IF Head(pattern) = "_"
         THEN s # <<>> /\ Like(Tail(s), Tail(pattern))
    ELSE s # <<>> /\ Head(s) = Head(pattern) /\ Like(Tail(s), Tail(pattern))

\* Message.text.ilike(f"%{q}%"): lower(text) LIKE lower(pattern); NULL matches nothing.
ILike(text, q) ==
    /\ text # None
    /\ Like(LowerStr(text[1]), LowerStr(<<"%">> \o q \o <<"%">>))

\* The WHERE clause built from the filters that were appended.
Where(row, from_, since, q) ==
    /\ Truthy(from_) => row.from_msisdn = from_[1]
    /\ since # None => row.ts >= since[1]
    /\ Truthy(q) => ILike(row.text, q[1])

Matching(rows, from_, since, q) ==
    LET Keep(row) == Where(row, from_, since, q)
    IN  SelectSeq(rows, Keep)

\* ORDER BY ts ASC alone: rows of one timestamp keep the order they are met in.
RowBeforeTsOnly(a, b) == a.ts < b.ts

\* ORDER BY ts ASC, message_id ASC
RowBefore(a, b) ==
    \/ a.ts < b.ts
    \/ a.ts = b.ts /\ StrLess(a.message_id, b.message_id)

RECURSIVE InsertRow(_, _)
InsertRow(sorted, row) ==
    IF sorted = <<>> THEN <<row>>
    ELSE IF RowBefore(row, Head(sorted)) THEN <<row>> \o sorted
    ELSE <<Head(sorted)>> \o InsertRow(Tail(sorted), row)

RECURSIVE OrderBy(_)
OrderBy(rows) ==
    IF rows = <<>> THEN <<>>
    ELSE InsertRow(OrderBy(SubSeq(rows, 1, Len(rows) - 1)), rows[Len(rows)])

\* LIMIT without the OFFSET.
LimitOnly(rows, limit, offset) == SubSeq(rows, 1, Min(Len(rows), limit))

\* LIMIT limit OFFSET offset
LimitOffset(rows, limit, offset) == SubSeq(rows, offset + 1, Min(Len(rows), offset + limit))

\* MessageResponse.model_validate(m)
MessageResponse(m) ==
    [message_id |-> m.message_id, from |-> m.from_msisdn, to |-> m.to_msisdn,
     ts |-> m.ts, text |-> m.text]

ToResponses(rows) == [i \in DOMAIN rows |-> MessageResponse(rows[i])]

\* The query parameters a list request may carry.
Limits == {0, 2, DefaultLimit, 101}

Offsets == {-1, 0, 1}

FromFilters == {None, Some(<<"+", "2", "0", "0">>)}

SinceFilters == {None, Some(2)}

QFilters == {None, Some(<<>>), Some(<<"m", "s", "g">>), Some(<<"_">>)}

\* The request arrives, limit and offset are clamped, the filters are built
\* and the count query runs.
ListCount(limit, offset, from_, since, q) ==
    /\ ReaderFree
    /\ rd' = [kind |-> "list", pc |-> "page",
              query |-> [limit |-> limit, offset |-> offset, from |-> from_,
                         since |-> since, q |-> q],
              limit |-> ClampLimit(limit),
              offset |-> ClampOffset(offset),
              total |-> Len(Matching(store, from_, since, q)),
              data |-> <<>>,
              resp |-> NoResponse]
    /\ UNCHANGED <<secret, store, clock, req, counter>>

\* The page query runs and the response is built.
ListPage ==
    /\ rd.kind = "list" /\ rd.pc = "page"
    /\ rd' = [rd EXCEPT
                !.pc = "done",
                !.data = ToResponses(LimitOffset(
                            OrderBy(Matching(store, rd.query.from, rd.query.since, rd.query.q)),
                            rd.limit, rd.offset)),
                !.resp = Response(200, "page")]
    /\ UNCHANGED <<secret, store, clock, req, counter>>

----------------------------------------------------------------------------
(* GET /stats (app/main.py, get_stats).                                    *)

TopN == 10

Senders(rows) == {rows[i].from_msisdn : i \in 1..Len(rows)}

CountOf(rows, sender) == Cardinality({i \in 1..Len(rows) : rows[i].from_msisdn = sender})

MinTs(rows) == CHOOSE t \in {rows[i].ts : i \in 1..Len(rows)} :
                  \A i \in 1..Len(rows) : t <= rows[i].ts

MaxTs(rows) == CHOOSE t \in {rows[i].ts : i \in 1..Len(rows)} :
                  \A i \in 1..Len(rows) : t >= rows[i].ts

\* The groups of GROUP BY from_msisdn with their count(message_id).
Groups(rows) == {[from |-> sd, count |-> CountOf(rows, sd)] : sd \in Senders(rows)}

\* The groups in ascending order of count.
RECURSIVE SortedAscending(_)
SortedAscending(groups) ==
    IF groups = {} THEN {<<>>}
    ELSE UNION { { <<g>> \o o : o \in SortedAscending(groups \ {g}) } :
                 g \in {g \in groups : \A h \in groups : g.count <= h.count} }

\* ORDER BY count DESC: every order of the groups in which the counts do
\* not increase (the order among equal counts is the database's choice).
RECURSIVE SortedDescending(_)
SortedDescending(groups) ==
    IF groups = {} THEN {<<>>}
    ELSE UNION { { <<g>> \o o : o \in SortedDescending(groups \ {g}) } :
                 g \in {g \in groups : \A h \in groups : g.count >= h.count} }

\* ORDER BY count, without DESC.
GroupOrdersAscending(rows) == SortedAscending(Groups(rows))

\* GROUP BY from_msisdn ORDER BY count DESC.
GroupOrders(rows) == SortedDescending(Groups(rows))

\* get_stats without the early return: the aggregates of an empty table are
\* NULL, and formatting them fails.
StatsCountEmptyFails ==
    /\ ReaderFree
    /\ rd' = [kind |-> "stats",
              pc |-> IF Len(store) = 0 THEN "done" ELSE "senders",
              total_messages |-> Len(store),
              senders_count |-> 0,
              messages_per_sender |-> <<>>,
              first_message_ts |-> None,
              last_message_ts |-> None,
              resp |-> IF Len(store) = 0 THEN ServerErrorResponse ELSE NoResponse]
    /\ UNCHANGED <<secret, store, clock, req, counter>>

\* The request arrives and the total is counted; an empty table is answered
\* at once.
StatsCount ==
    /\ ReaderFree
    /\ rd' = [kind |-> "stats",
              pc |-> IF Len(store) = 0 THEN "done" ELSE "senders",
              total_messages |-> Len(store),
              senders_count |-> 0,
              messages_per_sender |-> <<>>,
              first_message_ts |-> None,
              last_message_ts |-> None,
              resp |-> IF Len(store) = 0 THEN Response(200, "stats") ELSE NoResponse]
    /\ UNCHANGED <<secret, store, clock, req, counter>>

StatsSenders ==
    /\ rd.kind = "stats" /\ rd.pc = "senders"
    /\ rd' = [rd EXCEPT !.pc = "min", !.senders_count = Cardinality(Senders(store))]
    /\ UNCHANGED <<secret, store, clock, req, counter>>

StatsMin ==
    /\ rd.kind = "stats" /\ rd.pc = "min"
    /\ rd' = [rd EXCEPT !.pc = "max", !.first_message_ts = Some(MinTs(store))]
    /\ UNCHANGED <<secret, store, clock, req, counter>>

StatsMax ==
    /\ rd.kind = "stats" /\ rd.pc = "max"
    /\ rd' = [rd EXCEPT !.pc = "top", !.last_message_ts = Some(MaxTs(store))]
    /\ UNCHANGED <<secret, store, clock, req, counter>>

StatsTop ==
    /\ rd.kind = "stats" /\ rd.pc = "top"
    /\ \E o \in GroupOrders(store) :
         rd' = [rd EXCEPT
                  !.pc = "done",
                  !.messages_per_sender = SubSeq(o, 1, Min(TopN, Len(o))),
                  !.resp = Response(200, "stats")]
    /\ UNCHANGED <<secret, store, clock, req, counter>>

----------------------------------------------------------------------------
(* The ingestion specifications.                                           *)

Init ==
    /\ secret \in Secrets
    /\ store = <<>>
    /\ clock = 1
    /\ req = [r \in Reqs |-> IdleReq]
    /\ counter = [l \in Labels |-> 0]
    /\ rd = IdleReader

\* A webhook request arrives with any of the bodies and any of the headers.
Deliver(r) ==
    /\ NextReq(r)
    /\ \E b \in IngestBodies : \E sig \in Signatures(b) : WebhookReceive(r, b, sig)

\* Requests run concurrently.
Next ==
    \/ \E r \in Reqs : Deliver(r)
    \/ \E r \in Reqs : WebhookInsert(r)
    \/ \E r \in Reqs : WebhookCommit(r)

Spec == Init /\ [][Next]_vars

\* Requests run concurrently, and a caller may disconnect while its request
\* is at the store.
NextCancel ==
    \/ \E r \in Reqs : Deliver(r)
    \/ \E r \in Reqs : WebhookInsert(r)
    \/ \E r \in Reqs : WebhookCommit(r)
    \/ \E r \in Reqs : WebhookCancel(r)

SpecCancel == Init /\ [][NextCancel]_vars

\* One client sends its requests one after the other.
NextSeq ==
    \/ \E r \in Reqs : NoneInFlight /\ Deliver(r)
    \/ \E r \in Reqs : WebhookInsert(r)
    \/ \E r \in Reqs : WebhookCommit(r)

SpecSeq == Init /\ [][NextSeq]_vars

----------------------------------------------------------------------------
(* The read specification: the database file holds rows of earlier        *)
(* deliveries, one more delivery runs, and one read request runs with it. *)

\* The tables earlier deliveries of the seed bodies can have left: any of
\* them, in any order of arrival.
SeedStores ==
    UNION { { [i \in 1..n |-> Message(Bodies[o[i]].payload, i)] :
                o \in {f \in [1..n -> SeedBodies] :
                          \A i \in 1..n, j \in 1..n : i # j => f[i] # f[j]} } :
            n \in 0..Cardinality(SeedBodies) }

InitQuery ==
    /\ secret = SharedSecret
    /\ store \in SeedStores
    /\ clock = Len(store) + 1
    /\ req = [r \in Reqs |-> IdleReq]
    /\ counter = [l \in Labels |-> 0]
    /\ rd = IdleReader

NextQuery ==
    \/ \E b \in LiveBodies : WebhookReceive(1, b, Some(HexDigest(SharedSecret, Bodies[b].raw)))
    \/ \E r \in Reqs : WebhookInsert(r)
    \/ \E r \in Reqs : WebhookCommit(r)
    \/ ReaderFree /\ \E limit \in Limits, offset \in Offsets, from_ \in FromFilters,
                        since \in SinceFilters, q \in QFilters :
                        ListCount(limit, offset, from_, since, q)
    \/ ListPage
    \/ StatsCount
    \/ StatsSenders
    \/ StatsMin
    \/ StatsMax
    \/ StatsTop
    \/ HealthLive
    \/ HealthReady

SpecQuery == InitQuery /\ [][NextQuery]_vars

----------------------------------------------------------------------------
(* The health specification: the secret is set or empty, the table holds  *)
(* rows of earlier deliveries, a delivery runs, and a probe is answered.  *)

InitHealth ==
    /\ secret \in Secrets
    /\ store \in SeedStores
    /\ clock = Len(store) + 1
    /\ req = [r \in Reqs |-> IdleReq]
    /\ counter = [l \in Labels |-> 0]
    /\ rd = IdleReader

NextHealth ==
    \/ \E b \in LiveBodies : WebhookReceive(1, b, Some(HexDigest(SharedSecret, Bodies[b].raw)))
    \/ \E r \in Reqs : WebhookInsert(r)
    \/ \E r \in Reqs : WebhookCommit(r)
    \/ HealthLive
    \/ HealthReady

SpecHealth == InitHealth /\ [][NextHealth]_vars

----------------------------------------------------------------------------
(* The statistics specification: the table holds the messages of up to    *)
(* NumSenders senders, nothing is written, and GET /stats is called twice. *)

NumSenders == 12

DecimalDigits == <<"0", "1", "2", "3", "4", "5", "6", "7", "8", "9">>

\* Sender k of the seeded messages: "+9" and k in two digits.
SenderNo(k) == <<"+", "9", DecimalDigits[(k \div 10) + 1], DecimalDigits[(k % 10) + 1]>>

\* Sender k has sent k messages, and the sender `extra`, if any, one more
\* (as many as the sender after it).
SentBy(k, extra) == IF k = extra THEN k + 1 ELSE k

RECURSIVE Repeat(_, _)
Repeat(x, n) == IF n = 0 THEN <<>> ELSE <<x>> \o Repeat(x, n - 1)

\* The sender of each row, in order of insertion, the senders arriving in
\* the order ks.
RECURSIVE SenderOfRow(_, _)
SenderOfRow(ks, extra) ==
    IF ks = <<>> THEN <<>>
    ELSE Repeat(Head(ks), SentBy(Head(ks), extra)) \o SenderOfRow(Tail(ks), extra)

\* The i-th message added: its own message_id, and a timestamp that is
\* not in order of insertion.
SeededMessage(i, k) ==
    [message_id |-> <<"s", DecimalDigits[(i \div 100) + 1],
                      DecimalDigits[((i \div 10) % 10) + 1], DecimalDigits[(i % 10) + 1]>>,
     from_msisdn |-> SenderNo(k),
     to_msisdn |-> <<"+", "9", "9", "9">>,
     ts |-> ((i * 5) % 7) + 1,
     text |-> None,
     created_at |-> i]

SeededStore(ks, extra) ==
    LET sd == SenderOfRow(ks, extra)
    IN  [i \in 1..Len(sd) |-> SeededMessage(i, sd[i])]

\* Tables of the first n senders, inserted from the first sender to the
\* last or from the last to the first.
StatsStores ==
    UNION { { SeededStore([i \in 1..n |-> i], extra),
              SeededStore([i \in 1..n |-> n + 1 - i], extra) } :
            n \in 0..NumSenders, extra \in 0..NumSenders }

InitStats ==
    /\ secret = SharedSecret
    /\ store \in StatsStores
    /\ clock = Len(store) + 1
    /\ req = [r \in Reqs |-> IdleReq]
    /\ counter = [l \in Labels |-> 0]
    /\ rd = IdleReader

\* The client calls GET /stats again and keeps the list of the first answer.
StatsRepeat ==
    /\ rd.kind = "stats" /\ rd.pc = "done"
    /\ "prev" \notin DOMAIN rd
    /\ rd' = [kind |-> "stats",
              pc |-> IF Len(store) = 0 THEN "done" ELSE "senders",
              total_messages |-> Len(store),
              senders_count |-> 0,
              messages_per_sender |-> <<>>,
              first_message_ts |-> None,
              last_message_ts |-> None,
              resp |-> IF Len(store) = 0 THEN Response(200, "stats") ELSE NoResponse,
              prev |-> rd.messages_per_sender]
    /\ UNCHANGED <<secret, store, clock, req, counter>>

NextStats ==
    \/ StatsCount
    \/ StatsRepeat
    \/ StatsSenders
    \/ StatsMin
    \/ StatsMax
    \/ StatsTop

SpecStats == InitStats /\ [][NextStats]_vars

----------------------------------------------------------------------------
(* Properties of ingestion.                                                *)

PayloadOf(r) == Bodies[req[r].body].payload

RawOf(r) == Bodies[req[r].body].raw

Done(r) == req[r].pc = "done"

\* The request carries the lowercase hex digest of its exact bytes under the
\* configured secret.
CorrectlySigned(r) ==
    /\ secret # <<>>
    /\ req[r].sig = Some(HexDigest(secret, RawOf(r)))

RowsWithId(id) == {i \in 1..Len(store) : store[i].message_id = id}

\* "+", then one or more digits, as the pattern ^\+\d+$ reads a string.
DigitChars == {"0", "1", "2", "3", "4", "5", "6", "7", "8", "9"}

MatchesPattern(v) ==
    \E n \in {Len(v) - 1, Len(v)} :
        /\ n >= 2
        /\ n = Len(v) \/ v[Len(v)] = "\n"
        /\ v[1] = "+"
        /\ \A i \in 2..n : v[i] \in DigitChars

InvalidPayload(p) ==
    \/ p.message_id = <<>>
    \/ ~MatchesPattern(p.from_msisdn)
    \/ ~MatchesPattern(p.to_msisdn)
    \/ (p.text # None /\ Len(p.text[1]) > MaxTextLen)

\* The bodies whose payload is invalid.
InvalidBodies == {b \in 1..Len(Bodies) : InvalidPayload(Bodies[b].payload)}

\* The request was ended by a storage failure.
Failed(r) == Done(r) /\ req[r].resp.status = 500

\* C1: a client sends a valid, correctly signed body twice, one request after
\* the other, the first being the first delivery of that message_id and no
\* storage failure hitting either: the first is `created`, the second
\* `duplicate`, both answer 200 {"status":"ok"}, and the table holds exactly
\* one row with that message_id.
C1_SequentialIdempotency ==
    \A r1 \in Reqs, r2 \in Reqs :
        ( /\ r1 < r2
          /\ Done(r1) /\ Done(r2)
          /\ req[r1].body = req[r2].body
          /\ req[r1].body \notin InvalidBodies
          /\ CorrectlySigned(r1) /\ CorrectlySigned(r2)
          /\ ~Failed(r1) /\ ~Failed(r2)
          /\ \A o \in Reqs : o < r1 =>
                ~(req[o].result = "created"
                  /\ PayloadOf(o).message_id = PayloadOf(r1).message_id) )
        => /\ req[r1].result = "created"
           /\ req[r2].result = "duplicate"
           /\ req[r1].resp = OkResponse
           /\ req[r2].resp = req[r1].resp
           /\ Cardinality(RowsWithId(PayloadOf(r1).message_id)) = 1

\* C1 witness: the same body was delivered twice in a row, created then duplicate.
C1_Witness ==
    /\ Done(1) /\ Done(2)
    /\ req[1].body = 1 /\ req[2].body = 1
    /\ CorrectlySigned(1) /\ CorrectlySigned(2)
    /\ req[1].result = "created" /\ req[2].result = "duplicate"
    /\ Len(store) = 1

\* The valid, correctly signed requests that carry message_id `id`.
Deliveries(id) ==
    {r \in Reqs : /\ req[r].pc # "idle"
                  /\ PayloadOf(r).message_id = id
                  /\ req[r].body \notin InvalidBodies
                  /\ CorrectlySigned(r)}

MessageIds == {Bodies[b].payload.message_id : b \in 1..Len(Bodies)}

\* C2: in every interleaving of the valid, correctly signed requests that carry
\* one message_id, at most one ends `created` and the table never holds two rows
\* with that id; once they have all ended, none by a storage failure, exactly
\* one ended `created`, all the others `duplicate`, and the table holds exactly
\* one row with that id.
C2_ConcurrentDuplicates ==
    \A id \in MessageIds :
        LET sent == Deliveries(id)
            created == {r \in sent : req[r].result = "created"}
            duplicates == {r \in sent : req[r].result = "duplicate"}
        IN  /\ Cardinality(created) <= 1
            /\ Cardinality(RowsWithId(id)) <= 1
            /\ ( /\ sent # {}
                 /\ \A r \in sent : Done(r) /\ ~Failed(r) )
               => /\ Cardinality(created) = 1
                  /\ Cardinality(duplicates) = Cardinality(sent) - 1
                  /\ Cardinality(RowsWithId(id)) = 1

\* C2 witness: every request carried the same message_id and they overlapped:
\* the one that arrived last ended `created`, the one that arrived first `duplicate`.
C2_Witness ==
    /\ \A r \in Reqs : Done(r) /\ r \in Deliveries(<<"m", "1">>)
    /\ req[1].result = "duplicate"
    /\ req[NumReqs].result = "created"
    /\ Cardinality(RowsWithId(<<"m", "1">>)) = 1

\* C4 as stated: with a secret configured, a request whose X-Signature is
\* missing or is not the lowercase hex digest of its exact bytes is answered
\* 401 {"detail":"invalid signature"} and stores nothing, whatever its payload.
C4_SignatureRejection ==
    \A r \in Reqs :
        (Done(r) /\ secret # <<>> /\ ~CorrectlySigned(r))
        => /\ req[r].resp = InvalidSignatureResponse
           /\ req[r].result = "none"
           /\ req[r].row = None

C6_MissingSecret ==
    secret = <<>> =>
        /\ \A r \in Reqs :
             req[r].pc # "idle" =>
                /\ Done(r)
                /\ req[r].resp = NotConfiguredResponse
                /\ req[r].result = "none"
        /\ store = <<>>

\* C6 witness: without a secret, a request without a header and a request
\* with the sender's digest were both answered 503.
C6_Witness ==
    /\ secret = <<>>
    /\ Done(1) /\ Done(2)
    /\ req[1].sig = None
    /\ req[2].sig = Some(HexDigest(SharedSecret, RawOf(2)))
    /\ req[1].resp.status = 503 /\ req[2].resp.status = 503

----------------------------------------------------------------------------
(* Properties of the stored rows and of GET /messages.                     *)

\* C3: no step of a webhook, list, stats or health request removes or changes
\* a stored row; a row is added only for a message_id the table does not hold,
\* with exactly the from, to, timestamp and text of the request that ends
\* `created` in that step; and a delivery that ends `duplicate` leaves the
\* table as it was, whatever fields it carried.
C3_FirstWriterWins ==
    [][ /\ Len(store') >= Len(store)
        /\ \A i \in 1..Len(store) : store'[i] = store[i]
        /\ \A i \in (Len(store) + 1)..Len(store') :
              /\ \A j \in 1..Len(store) : store[j].message_id # store'[i].message_id
              /\ \E r \in Reqs :
                    /\ req[r].result = "none" /\ req'[r].result = "created"
                    /\ store'[i] = Message(PayloadOf(r), store'[i].created_at)
        /\ \A r \in Reqs :
              (req[r].result = "none" /\ req'[r].result = "duplicate") => store' = store
      ]_vars

\* C3 witness: a delivery that carried a stored message_id with another sender,
\* timestamp and text ended `duplicate`, and the row still holds the first fields.
C3_Witness ==
    /\ Done(1)
    /\ req[1].body = 11
    /\ req[1].result = "duplicate"
    /\ \E i \in 1..Len(store) :
          /\ store[i].message_id = <<"m", "2">>
          /\ store[i] = Message(Bodies[4].payload, store[i].created_at)
          /\ store[i].from_msisdn # Bodies[11].payload.from_msisdn

IsList == rd.kind = "list"

\* The rows of the table the request's filters select.
Selected == {i \in 1..Len(store) : Where(store[i], rd.query.from, rd.query.since, rd.query.q)}

\* The number of selected rows that come before row i in sort order.
Rank(i) == Cardinality({j \in Selected : RowBefore(store[j], store[i])})

CountStep == rd.pc = "idle" /\ rd'.kind = "list"

PageStep == IsList /\ rd.pc = "page" /\ rd'.pc = "done"

\* C7: the count read of a list request sets `total` to the number of rows the
\* filters select, whatever limit and offset are; the page read sets `data`
\* to the selected rows at positions offset .. offset+limit-1 of the sort order.
C7_PaginationTotalAndSlice ==
    [][ /\ CountStep =>
              rd'.total = Cardinality({i \in 1..Len(store) :
                              Where(store[i], rd'.query.from, rd'.query.since, rd'.query.q)})
        /\ PageStep =>
              /\ Len(rd'.data) = Max(0, Min(rd.limit, Cardinality(Selected) - rd.offset))
              /\ \A k \in 1..Len(rd'.data) :
                    \E i \in Selected :
                        /\ Rank(i) = rd.offset + k - 1
                        /\ rd'.data[k] = MessageResponse(store[i])
      ]_vars

\* C7 witness: limit=2 and offset=1 over four rows, no filter: total is 4 and
\* the page holds the second and third message in sort order.
C7_Witness ==
    /\ IsList /\ rd.pc = "done"
    /\ rd.query.limit = 2 /\ rd.query.offset = 1
    /\ rd.query.from = None /\ rd.query.since = None /\ rd.query.q = None
    /\ rd.total = 4
    /\ Len(rd.data) = 2
    /\ rd.data[1].message_id = <<"m", "1">>
    /\ rd.data[2].message_id = <<"m", "2">>

\* C8: the page of a list response is in ascending timestamp order, messages
\* of one timestamp in ascending message_id order, whatever order the rows
\* were inserted in; every item is a stored row the filters select, and none
\* is returned twice.
C8_ListOrdering ==
    (IsList /\ rd.pc = "done") =>
        /\ \A k \in 1..Len(rd.data), l \in 1..Len(rd.data) :
              k < l =>
                 \/ rd.data[k].ts < rd.data[l].ts
                 \/ /\ rd.data[k].ts = rd.data[l].ts
                    /\ StrLess(rd.data[k].message_id, rd.data[l].message_id)
        /\ \A k \in 1..Len(rd.data) :
              \E i \in Selected : rd.data[k] = MessageResponse(store[i])

\* C8 witness: m2 was inserted before m1 and both carry timestamp 2, m4 was
\* inserted after m3 and is older: the page lists m4, m1, m2, m3.
C8_Witness ==
    /\ IsList /\ rd.pc = "done"
    /\ Len(store) = 4
    /\ store[1].message_id = <<"m", "2">>
    /\ store[2].message_id = <<"m", "3">>
    /\ store[3].message_id = <<"m", "4">>
    /\ store[4].message_id = <<"m", "1">>
    /\ store[4].ts = store[1].ts
    /\ Len(rd.data) = 4
    /\ rd.data[1].message_id = <<"m", "4">>
    /\ rd.data[2].message_id = <<"m", "1">>
    /\ rd.data[3].message_id = <<"m", "2">>
    /\ rd.data[4].message_id = <<"m", "3">>

\* C9: a list request is answered 200 for every limit and offset; the limit
\* reported is 1 for a limit below 1, 100 for a limit above 100 and the limit
\* itself otherwise, the offset reported is 0 for a negative offset and the
\* offset itself otherwise; the page is cut with these values and never
\* holds more than 100 items.
C9_Clamping ==
    [][ /\ IsList' =>
              /\ rd'.query.limit < 1 => rd'.limit = 1
              /\ rd'.query.limit > 100 => rd'.limit = 100
              /\ (rd'.query.limit >= 1 /\ rd'.query.limit <= 100) => rd'.limit = rd'.query.limit
              /\ rd'.query.offset < 0 => rd'.offset = 0
              /\ rd'.query.offset >= 0 => rd'.offset = rd'.query.offset
              /\ Len(rd'.data) <= 100
              /\ rd'.pc = "done" => rd'.resp.status = 200
        /\ PageStep =>
              /\ rd'.limit = rd.limit /\ rd'.offset = rd.offset
              /\ Len(rd'.data) = Max(0, Min(rd'.limit, Cardinality(Selected) - rd'.offset))
      ]_vars

\* C9 witness: limit=101 was answered with limit 100, offset=-1 with offset 0,
\* and the page holds all four rows.
C9_Witness ==
    /\ IsList /\ rd.pc = "done"
    /\ rd.query.limit = 101 /\ rd.limit = 100
    /\ rd.query.offset = -1 /\ rd.offset = 0
    /\ rd.resp.status = 200
    /\ Len(rd.data) = 4

\* q is a substring of text, letter case aside.
ContainsIgnoreCase(text, q) ==
    \E i \in 1..(Len(text) - Len(q) + 1) :
        LowerStr(SubSeq(text, i, i + Len(q) - 1)) = LowerStr(q)

\* The row satisfies every filter that was supplied.
Satisfies(row, query) ==
    /\ Truthy(query.from) => row.from_msisdn = query.from[1]
    /\ query.since # None => row.ts >= query.since[1]
    /\ Truthy(query.q) => (row.text # None /\ ContainsIgnoreCase(row.text[1], query.q[1]))

\* C10 as stated: `total` counts exactly the rows that satisfy every supplied
\* filter (sender equal to from, timestamp >= since, q a case-insensitive
\* substring of text), and the page holds only such rows.
C10_FilterComposition ==
    [][ /\ CountStep =>
              rd'.total = Cardinality({i \in 1..Len(store) : Satisfies(store[i], rd'.query)})
        /\ PageStep =>
              \A k \in 1..Len(rd'.data) :
                  \E i \in 1..Len(store) :
                      /\ Satisfies(store[i], rd.query)
                      /\ rd'.data[k] = MessageResponse(store[i])
      ]_vars

----------------------------------------------------------------------------
(* Properties of GET /stats.                                               *)

IsStats == rd.kind = "stats"

\* The stored rows of a sender.
RowsOfSender(sd) == {i \in 1..Len(store) : store[i].from_msisdn = sd}

StoredSenders == {store[i].from_msisdn : i \in 1..Len(store)}

\* The senders a stats response lists.
Listed(mps) == {mps[k].from : k \in 1..Len(mps)}

\* C11: over a non-empty store, GET /stats answers with total_messages = the
\* number of rows, senders_count = the number of distinct senders,
\* first_message_ts and last_message_ts = the least and the greatest stored
\* timestamp, and messages_per_sender a list of at most 10 senders (all of
\* them when there are no more than 10), each once and with its exact number
\* of rows, the counts not increasing down the list, and no sender left out
\* that has more rows than a listed one.
C11_StatsAggregation ==
    (IsStats /\ rd.pc = "done" /\ Len(store) > 0) =>
        LET mps == rd.messages_per_sender
        IN  /\ rd.resp.status = 200
            /\ rd.total_messages = Len(store)
            /\ rd.senders_count = Cardinality(StoredSenders)
            /\ rd.first_message_ts # None
            /\ \E i \in 1..Len(store) : store[i].ts = rd.first_message_ts[1]
            /\ \A i \in 1..Len(store) : store[i].ts >= rd.first_message_ts[1]
            /\ rd.last_message_ts # None
            /\ \E i \in 1..Len(store) : store[i].ts = rd.last_message_ts[1]
            /\ \A i \in 1..Len(store) : store[i].ts <= rd.last_message_ts[1]
            /\ Len(mps) <= 10
            /\ Len(mps) = Min(10, Cardinality(StoredSenders))
            /\ \A k \in 1..Len(mps) :
                  /\ mps[k].from \in StoredSenders
                  /\ mps[k].count = Cardinality(RowsOfSender(mps[k].from))
            /\ \A k \in 1..Len(mps), l \in 1..Len(mps) :
                  /\ k < l => mps[k].count >= mps[l].count
                  /\ k # l => mps[k].from # mps[l].from
            /\ \A sd \in StoredSenders \ Listed(mps) :
                  \A k \in 1..Len(mps) : Cardinality(RowsOfSender(sd)) <= mps[k].count

\* C11 witness: twelve senders, the first with 1 message and the twelfth
\* with 12: the answer lists ten of them, from the sender of 12 messages down
\* to the sender of 3, and leaves out the senders of 1 and of 2.
C11_Witness ==
    /\ IsStats /\ rd.pc = "done"
    /\ rd.total_messages = 78
    /\ rd.senders_count = 12
    /\ Len(rd.messages_per_sender) = 10
    /\ rd.messages_per_sender[1] = [from |-> SenderNo(12), count |-> 12]
    /\ rd.messages_per_sender[10] = [from |-> SenderNo(3), count |-> 3]
    /\ rd.first_message_ts = Some(1)
    /\ rd.last_message_ts = Some(7)

\* C12: GET /stats arriving at an empty store is answered at once with 200,
\* total_messages = 0, senders_count = 0, an empty messages_per_sender and
\* null first_message_ts and last_message_ts.
C12_StatsEmptyStore ==
    [][ (rd.pc = "idle" /\ IsStats' /\ Len(store) = 0) =>
            /\ rd'.pc = "done"
            /\ rd'.resp.status = 200
            /\ rd'.total_messages = 0
            /\ rd'.senders_count = 0
            /\ rd'.messages_per_sender = <<>>
            /\ rd'.first_message_ts = None
            /\ rd'.last_message_ts = None
      ]_vars

\* C12 witness: the store is empty and GET /stats was answered.
C12_Witness ==
    /\ IsStats /\ rd.pc = "done"
    /\ Len(store) = 0
    /\ rd.resp.status = 200
    /\ rd.total_messages = 0
    /\ rd.first_message_ts = None

\* C13 as stated: two GET /stats calls over the same store contents return
\* the same messages_per_sender list: senders of equal count keep their
\* relative order, and the same ones fall inside the top-10 cut.
C13_StatsTieBreak ==
    (IsStats /\ rd.pc = "done" /\ "prev" \in DOMAIN rd) =>
        rd.messages_per_sender = rd.prev

----------------------------------------------------------------------------
(* Properties of the side effects of POST /webhook.                        *)

\* Request r ends in this step.
Ends(r) == req[r].pc # "done" /\ req'[r].pc = "done"

\* The step is a storage failure of request r.
StoreFails(r) == req[r].pc \in {"writing", "committing"} /\ req'[r].resp.status = 500

\* C14 as stated: the step that ends a webhook request increments the outcome
\* counter exactly once, by one and under one label: created for a new row,
\* duplicate for a stored id, invalid_signature for a 401, invalid_payload
\* for a 422, internal_error for a storage failure; no other step touches
\* the counter.
C14_OneOutcomePerRequest ==
    [][ /\ \A r \in Reqs :
              Ends(r) =>
                 \E l \in Labels :
                    /\ counter' = Inc(counter, l)
                    /\ req'[r].result = "created" => l = "created"
                    /\ req'[r].result = "duplicate" => l = "duplicate"
                    /\ req'[r].resp.status = 401 => l = "invalid_signature"
                    /\ req'[r].resp.status = 422 => l = "invalid_payload"
                    /\ StoreFails(r) => l = "internal_error"
        /\ (\A r \in Reqs : ~Ends(r)) => counter' = counter
      ]_vars

\* C15 as stated: a finished webhook request has written exactly one log
\* record, and the record carries the message identifier, the outcome
\* classification and the latency.
C15_OneLogRecordPerRequest ==
    \A r \in Reqs :
        Done(r) =>
            /\ Len(req[r].log) = 1
            /\ {"message_id", "result", "latency_ms"} \subseteq req[r].log[1].extra

\* The records of a log that are errors.
ErrorRecords(log) == {k \in 1..Len(log) : log[k].level = "ERROR"}

\* C16: a request that reached the store ends in one of three ways.  It
\* reports created, and its row was added; it reports duplicate, and its
\* message_id was stored already; or the insert failed otherwise, and then
\* it reports neither: the answer is the generic 500, the failure is logged
\* as an error, and the store is as it was.
C16_StoreFaultsAreNotSuccesses ==
    [][ \A r \in Reqs :
          (req[r].pc \in {"writing", "committing"} /\ Ends(r)) =>
             \/ /\ req'[r].result = "created"
                /\ req'[r].resp = OkResponse
                /\ Len(store') = Len(store) + 1
                /\ store'[Len(store')].message_id = PayloadOf(r).message_id
             \/ /\ req'[r].result = "duplicate"
                /\ req'[r].resp = OkResponse
                /\ \E i \in 1..Len(store) : store[i].message_id = PayloadOf(r).message_id
                /\ store' = store
             \/ /\ req'[r].result = "none"
                /\ req'[r].resp.status = 500
                /\ req'[r].resp.body = "Internal Server Error"
                /\ ErrorRecords(req'[r].log) # {}
                /\ store' = store
                /\ counter'["created"] = counter["created"]
                /\ counter'["duplicate"] = counter["duplicate"]
      ]_vars

\* C16 witness: a valid, correctly signed delivery of a message_id that is
\* not stored was answered 500, and the store holds no row of it.
C16_Witness ==
    \E r \in Reqs :
        /\ Failed(r)
        /\ CorrectlySigned(r)
        /\ req[r].body \notin InvalidBodies
        /\ req[r].result = "none"
        /\ RowsWithId(PayloadOf(r).message_id) = {}

----------------------------------------------------------------------------
(* Properties of concurrent ingestion.                                     *)

\* The messages stored, without the time of insertion.
StoredMessages == {MessageResponse(store[i]) : i \in 1..Len(store)}

\* Two requests with valid, correctly signed bodies of different message_id,
\* each the only delivery of its message_id, and neither of them ended by a
\* storage failure.
Independent(r, o) ==
    /\ r # o
    /\ Done(r) /\ Done(o)
    /\ PayloadOf(r).message_id # PayloadOf(o).message_id
    /\ Deliveries(PayloadOf(r).message_id) = {r}
    /\ Deliveries(PayloadOf(o).message_id) = {o}
    /\ ~Failed(r) /\ ~Failed(o)

\* C17: two concurrent valid, correctly signed deliveries of different
\* message_ids both end created, however their steps interleave, and the
\* store then holds the two messages, each once, whichever was committed
\* first: the messages stored are those of the requests that ended created.
C17_IndependentIdsCommute ==
    \A r \in Reqs, o \in Reqs :
        Independent(r, o) =>
            /\ req[r].result = "created" /\ req[r].resp = OkResponse
            /\ req[o].result = "created" /\ req[o].resp = OkResponse
            /\ Cardinality(RowsWithId(PayloadOf(r).message_id)) = 1
            /\ Cardinality(RowsWithId(PayloadOf(o).message_id)) = 1
            /\ {MessageResponse(Message(PayloadOf(r), 0)),
                MessageResponse(Message(PayloadOf(o), 0))} \subseteq StoredMessages
            /\ StoredMessages = {MessageResponse(Message(PayloadOf(q), 0)) :
                                    q \in {q \in Reqs : req[q].result = "created"}}

\* C17 witness: the request that arrived second was committed first, and
\* both ended created.
C17_Witness ==
    /\ Independent(1, 2)
    /\ Len(store) = 2
    /\ store[1].message_id = PayloadOf(2).message_id
    /\ store[2].message_id = PayloadOf(1).message_id
    /\ store[1].created_at > store[2].created_at

\* Request r was cancelled, and it had the message_id of request o.
CancelledBefore(r, o) ==
    /\ r # o
    /\ req[r].pc = "cancelled"
    /\ PayloadOf(r).message_id = PayloadOf(o).message_id

\* C18: wherever requests are cancelled, the store never holds two rows of
\* one message_id; and a delivery that ends after a request of the same
\* message_id was cancelled is answered by what was committed: it ends
\* created exactly when no row of the message_id was stored, and then stores
\* the one row; it ends duplicate exactly when a row was stored, and then
\* stores nothing.
C18_CancellationKeepsIdempotency ==
    [][ /\ \A id \in StoredIds(store') : Cardinality({i \in 1..Len(store') : store'[i].message_id = id}) = 1
        /\ \A o \in Reqs :
              (/\ Ends(o)
               /\ req'[o].result \in {"created", "duplicate"}
               /\ \E r \in Reqs : CancelledBefore(r, o)) =>
                  LET id == PayloadOf(o).message_id
                  IN  /\ req'[o].result = "created" <=> RowsWithId(id) = {}
                      /\ req'[o].result = "duplicate" <=> RowsWithId(id) # {}
                      /\ req'[o].result = "duplicate" => store' = store
                      /\ req'[o].result = "created" =>
                            /\ Len(store') = Len(store) + 1
                            /\ store'[Len(store')].message_id = id
      ]_vars

\* C18 witness: the first request was cancelled while its COMMIT was under
\* way and the row was committed; the other delivery of the same message_id
\* ended duplicate, and the store holds the one row, that of the cancelled
\* request.
C18_Witness ==
    /\ req[1].pc = "cancelled"
    /\ Done(2) /\ req[2].result = "duplicate"
    /\ PayloadOf(1).message_id = PayloadOf(2).message_id
    /\ Len(store) = 1
    /\ store[1].message_id = PayloadOf(1).message_id
    /\ store[1].from_msisdn = PayloadOf(1).from_msisdn
    /\ PayloadOf(2).from_msisdn # PayloadOf(1).from_msisdn
    /\ counter["created"] = 0

----------------------------------------------------------------------------
(* Properties of the health probes.                                        *)

\* A probe is answered in this step.
LiveStep == rd.pc = "idle" /\ rd'.kind = "live"

ReadyStep == rd.pc = "idle" /\ rd'.kind = "ready"

\* C19: /health/live is answered 200 "ok" in whatever state it arrives;
\* /health/ready is answered 200 "ready" exactly when the probe query was
\* answered and the secret is not empty, and 503 otherwise; neither changes
\* the store.
C19_HealthProbes ==
    [][ /\ LiveStep =>
              /\ rd'.resp = Response(200, "status:ok")
              /\ store' = store
        /\ ReadyStep =>
              /\ rd'.resp = Response(200, "status:ready") <=> (rd'.db_up /\ secret # <<>>)
              /\ rd'.resp.status \in {200, 503}
              /\ rd'.resp.status = 503 <=> ~(rd'.db_up /\ secret # <<>>)
              /\ store' = store
      ]_vars

\* C19 witness: the database answered the probe but the secret is empty,
\* and /health/ready was answered 503 over a store of three rows.
C19_Witness ==
    /\ rd.kind = "ready" /\ rd.pc = "done"
    /\ rd.db_up /\ secret = <<>>
    /\ rd.resp.status = 503
    /\ Len(store) = 3

----------------------------------------------------------------------------
(* Properties of reads that run with a delivery.                           *)

\* C20 as stated: the page and the total of a list response come from one
\* snapshot, also when a delivery is committed between the count and the
\* page query: the page holds min(limit, max(0, total - offset)) items, with
\* the limit and the offset the response reports.
C20_ListSnapshot ==
    (IsList /\ rd.pc = "done") =>
        Len(rd.data) = Min(rd.limit, Max(0, rd.total - rd.offset))

\* The sum of the counts of a messages_per_sender list.
RECURSIVE SumOfCounts(_)
SumOfCounts(mps) == IF mps = <<>> THEN 0 ELSE Head(mps).count + SumOfCounts(Tail(mps))

\* C21 as stated: the values of a stats response describe one store state,
\* also when a delivery is committed between the reads of get_stats:
\* total_messages >= senders_count, messages_per_sender has
\* min(10, senders_count) entries, with no more than 10 senders the counts
\* add up to total_messages, and with total_messages > 0 the timestamps are
\* not null and first_message_ts <= last_message_ts.
C21_StatsSnapshot ==
    (IsStats /\ rd.pc = "done") =>
        /\ rd.total_messages >= rd.senders_count
        /\ Len(rd.messages_per_sender) = Min(10, rd.senders_count)
        /\ rd.senders_count <= 10 => SumOfCounts(rd.messages_per_sender) = rd.total_messages
        /\ rd.total_messages > 0 =>
              /\ rd.first_message_ts # None
              /\ rd.last_message_ts # None
              /\ rd.first_message_ts[1] <= rd.last_message_ts[1]

====
